---- MODULE Spec2Model ----
(***************************************************************************)
(* Order / payment consistency engine of the online cinema.                *)
(*                                                                         *)
(* The database is modelled at the level of committed rows (PostgreSQL,    *)
(* READ COMMITTED: every statement of a request sees the rows committed    *)
(* when it runs, and the writes of a request become visible together at    *)
(* its commit).  create_order and delete_movie are modelled statement by   *)
(* statement, so that requests interleave at their await points; the other *)
(* handlers run as one step.                                               *)
(***************************************************************************)
EXTENDS Integers, FiniteSets, Sequences, TLC

(* ------------------------------ bounds -------------------------------- *)
NumUsers == 2
NumShoppers == 1
NumMovies == 2
MaxPrice == 2
MaxCarts == 2
MaxOrders == 2
MaxPayments == 2
MaxTasks == 3
MaxRegistrations == 1
MaxTokens == 3
NumReqs == 2

Users == 1..NumUsers
\* the users who fill carts and place orders
Shoppers == 1..NumShoppers
MovieIds == 1..NumMovies
Prices == 1..MaxPrice
Reqs == 1..NumReqs

\* the member of the "admin" group (UserGroupEnum.ADMIN); the others are "user"
AdminId == NumUsers

group_name(u) == IF u = AdminId THEN "admin" ELSE "user"

(* ------------------------------ state --------------------------------- *)
VARIABLES
    movies,        \* movies table: id -> price, for the movies that exist
    carts,         \* carts table: set of [id, user_id]
    cart_items,    \* cart_items table: set of [cart_id, movie_id]
    orders,        \* orders table: id -> [user_id, status, total_amount]
    order_items,   \* order_items table: set of [id, order_id, movie_id, price_at_order]
    payments,      \* payments table: id -> [user_id, order_id, status, amount, external_payment_id]
    payment_items, \* payment_items table: set of [payment_id, order_item_id, price_at_payment]
    tasks,         \* background_tasks queued so far: sequence of [func, email, amount]
    seq,           \* autoincrement counters: [cart, order, order_item, payment]
                   \* and the tokens generated so far: [token]
    co,            \* create_order requests in flight: request -> locals
    dm,            \* the delete_movie request in flight: locals
    tx,            \* order and payment requests in flight between their read and
                   \* their write: kind of request -> locals
    users,         \* users table: id -> [is_active]; a user's email stands for its id
    activation_tokens, \* activation_tokens table: set of [token, user_id, expired]
    refresh_tokens,    \* refresh_tokens table: set of [token, user_id]
    last           \* the last request that returned: what it was and its response

vars == <<movies, carts, cart_items, orders, order_items, payments,
          payment_items, tasks, seq, co, dm, tx, users, activation_tokens,
          refresh_tokens, last>>

\* the tables of routes/accounts.py
accounts == <<users, activation_tokens, refresh_tokens>>

db == <<movies, carts, cart_items, orders, order_items, payments, payment_items>>

(* ------------------------------ enums --------------------------------- *)
\* OrderStatus
PENDING == "pending"
PAID == "paid"
CANCELED == "canceled"
OrderStatus == {PENDING, PAID, CANCELED}

\* PaymentStatus
pending == "pending"
successful == "successful"
canceled == "canceled"
refunded == "refunded"
PaymentStatus == {pending, successful, canceled, refunded}

(* ------------------------------ helpers ------------------------------- *)
RECURSIVE SumOver(_, _)
\* sum(f(x) for x in S), f given as a function on S
SumOver(S, f) ==
    IF S = {} THEN 0
    ELSE LET x == CHOOSE y \in S : TRUE IN f[x] + SumOver(S \ {x}, f)

\* the response recorded for the request that has just returned; gw tells
\* whether the request called the gateway's refund API, intent is the id of
\* the payment intent it opened at the gateway (none: ""), user is the
\* requester of an order request
Response(op, code, id) ==
    [op |-> op, code |-> code, id |-> id,
     type |-> "", ext |-> "", pi |-> "", sig |-> "", gw |-> FALSE,
     intent |-> "", user |-> 0, order |-> 0, status |-> ""]

IdleCo == [pc |-> "idle", user |-> 0, cart |-> 0, items |-> {}, priced |-> {}]
IdleDm == [pc |-> "idle", movie |-> 0, user |-> 0]

\* the requests that read a row, check it and write it in separate statements
TxKinds == {"update_order_status", "cancel_order", "refund_payment", "refund_payment_2",
            "stripe_webhook"}

NoEvent == [type |-> "", id |-> "", payment_intent |-> ""]

\* locals of such a request: the row it loaded (id, status as read), the
\* requester, the status it is about to write, and for a webhook the event
IdleTx == [pc |-> "idle", id |-> 0, user |-> 0, read |-> "", arg |-> "", event |-> NoEvent]

Init ==
    /\ movies = [m \in MovieIds |-> 1]
    /\ carts = {}
    /\ cart_items = {}
    /\ orders = <<>>
    /\ order_items = {}
    /\ payments = <<>>
    /\ payment_items = {}
    /\ tasks = <<>>
    /\ seq = [cart |-> 1, order |-> 1, order_item |-> 1, payment |-> 1, token |-> 1]
    /\ co = [r \in Reqs |-> IdleCo]
    /\ dm = IdleDm
    /\ tx = [k \in TxKinds |-> IdleTx]
    /\ users = [u \in Users |-> [is_active |-> TRUE]]
    /\ activation_tokens = {}
    /\ refresh_tokens = {}
    /\ last = Response("none", 0, 0)

(* ------------------------------ carts --------------------------------- *)
\* routes/carts.py fetch_existing_cart: the user's cart row, or none
fetch_existing_cart(user_id) == {c \in carts : c.user_id = user_id}

\* POST /cart/{movie_id}/add: the cart is created when the user has none
add_movie(movie_id, user_id) ==
    LET have == fetch_existing_cart(user_id)
        cart_id == IF have = {} THEN seq.cart ELSE (CHOOSE c \in have : TRUE).id
        purchased == \E i \in order_items :
                        /\ i.movie_id = movie_id
                        /\ i.order_id \in DOMAIN orders
                        /\ orders[i.order_id].user_id = user_id
                        /\ orders[i.order_id].status = PAID
    IN  /\ have = {} => seq.cart <= MaxCarts
        /\ IF movie_id \notin DOMAIN movies
             THEN /\ last' = Response("add_movie", 404, movie_id)
                  /\ UNCHANGED <<carts, cart_items, seq>>
           ELSE IF [cart_id |-> cart_id, movie_id |-> movie_id] \in cart_items
             THEN /\ last' = Response("add_movie", 400, movie_id)
                  /\ UNCHANGED <<carts, cart_items, seq>>
           ELSE IF purchased
             THEN /\ last' = Response("add_movie", 400, movie_id)
                  /\ UNCHANGED <<carts, cart_items, seq>>
           ELSE /\ carts' = carts \cup {[id |-> cart_id, user_id |-> user_id]}
                /\ cart_items' = cart_items \cup {[cart_id |-> cart_id, movie_id |-> movie_id]}
                /\ seq' = IF have = {} THEN [seq EXCEPT !.cart = @ + 1] ELSE seq
                /\ last' = Response("add_movie", 200, movie_id)
        /\ UNCHANGED <<movies, orders, order_items, payments, payment_items, tasks, co, dm, tx, accounts>>

\* DELETE /cart/{movie_id}/remove, for a user who has a cart
remove_movie(movie_id, user_id) ==
    LET have == fetch_existing_cart(user_id)
        cart_id == (CHOOSE c \in have : TRUE).id
        item == [cart_id |-> cart_id, movie_id |-> movie_id]
    IN  /\ have # {}
        /\ IF item \notin cart_items
             THEN /\ last' = Response("remove_movie", 404, movie_id)
                  /\ UNCHANGED cart_items
             ELSE /\ cart_items' = cart_items \ {item}
                  /\ last' = Response("remove_movie", 200, movie_id)
        /\ UNCHANGED <<movies, carts, orders, order_items, payments, payment_items,
                       tasks, seq, co, dm, tx, accounts>>

(* --------------------------- create_order ----------------------------- *)
\* the user's orders that are PENDING (the query of orders.py:152)
existing_orders(user_id) ==
    {o \in DOMAIN orders : orders[o].user_id = user_id /\ orders[o].status = PENDING}

\* co_fail without the rollback: the Order row that was flushed stays
co_fail_without_rollback(r, code) ==
    /\ co' = [co EXCEPT ![r] = IdleCo]
    /\ last' = Response("create_order", code, 0)
    /\ orders' = [o \in DOMAIN orders \cup {seq.order} |->
                    IF o = seq.order
                      THEN [user_id |-> co[r].user, status |-> PENDING, total_amount |-> 0]
                      ELSE orders[o]]
    /\ seq' = [seq EXCEPT !.order = @ + 1]
    /\ UNCHANGED <<movies, carts, cart_items, order_items, payments, payment_items,
                   tasks, dm, tx, accounts>>

\* a request returns: its locals are dropped and nothing of it is committed
co_fail(r, code) ==
    /\ co' = [co EXCEPT ![r] = IdleCo]
    /\ last' = Response("create_order", code, 0)
    /\ UNCHANGED <<db, tasks, seq, dm, tx, accounts>>

\* orders.py:152-156: check for any pending orders
create_order_check(r, user_id) ==
    /\ co[r].pc = "idle"
    /\ \A q \in Reqs : q < r => co[q].pc # "idle"
    /\ seq.order <= MaxOrders
    /\ IF existing_orders(user_id) # {}
         THEN /\ last' = Response("create_order", 400, 0)
              /\ UNCHANGED co
         ELSE /\ co' = [co EXCEPT ![r] = [IdleCo EXCEPT !.pc = "cart", !.user = user_id]]
              /\ UNCHANGED last
    /\ UNCHANGED <<db, tasks, seq, dm, tx, accounts>>

\* cart_is_empty looking at the cart row only
cart_is_missing(have, items) == have = {}

\* orders.py:160: not user_cart or not user_cart.cart_items
cart_is_empty(have, items) == have = {} \/ items = {}

\* orders.py:159-161: get the existing cart with its items
create_order_cart(r) ==
    LET have == fetch_existing_cart(co[r].user)
        cart_id == (CHOOSE c \in have : TRUE).id
        items == {i.movie_id : i \in {j \in cart_items : j.cart_id = cart_id}}
    IN  /\ co[r].pc = "cart"
        /\ IF cart_is_empty(have, items)
             THEN co_fail(r, 400)
             ELSE /\ co' = [co EXCEPT ![r].pc = "movies", ![r].cart = cart_id,
                                      ![r].items = items]
                  /\ UNCHANGED <<db, tasks, seq, dm, tx, accounts, last>>

\* orders.py:163-170: the movies of the cart that still exist, with their prices
create_order_movies(r) ==
    LET movies_in_cart == {[id |-> m, price |-> movies[m]] :
                              m \in co[r].items \cap DOMAIN movies}
    IN  /\ co[r].pc = "movies"
        /\ IF movies_in_cart = {}
             THEN co_fail(r, 400)
             ELSE /\ co' = [co EXCEPT ![r].pc = "write", ![r].priced = movies_in_cart]
                  /\ UNCHANGED <<db, tasks, seq, dm, tx, accounts, last>>

\* the OrderItem rows of orders.py:176-178, numbered in the order of insertion
RECURSIVE NewOrderItems(_, _, _)
NewOrderItems(order_id, priced, first_id) ==
    IF priced = {} THEN {}
    ELSE LET m == CHOOSE x \in priced : \A y \in priced : x.id <= y.id
         IN  {[id |-> first_id, order_id |-> order_id, movie_id |-> m.id,
               price_at_order |-> m.price]}
             \cup NewOrderItems(order_id, priced \ {m}, first_id + 1)

\* sum(movie.price for movie in movies_in_cart), orders.py:170
total_amount(priced) ==
    SumOver(priced, [m \in priced |-> m.price])

\* orders.py:172-184: insert the order and its items, delete the cart, commit.
\* The INSERT of an order item whose movie is gone violates its foreign key:
\* SQLAlchemyError, rollback, 500.  Deleting a row that is already gone
\* matches no row, which the ORM only warns about.
create_order_commit(r) ==
    LET c == co[r]
        order_id == seq.order
    IN  /\ c.pc = "write"
        /\ IF \E m \in c.priced : m.id \notin DOMAIN movies
             THEN co_fail(r, 500)
             ELSE /\ orders' = [o \in DOMAIN orders \cup {order_id} |->
                                  IF o = order_id
                                    THEN [user_id |-> c.user, status |-> PENDING,
                                          total_amount |-> total_amount(c.priced)]
                                    ELSE orders[o]]
                  /\ order_items' = order_items
                                      \cup NewOrderItems(order_id, c.priced, seq.order_item)
                  /\ cart_items' = {i \in cart_items : i.cart_id # c.cart}
                  /\ carts' = {k \in carts : k.id # c.cart}
                  /\ seq' = [seq EXCEPT !.order = @ + 1,
                                        !.order_item = @ + Cardinality(c.priced)]
                  /\ co' = [co EXCEPT ![r] = IdleCo]
                  /\ last' = Response("create_order", 201, order_id)
                  /\ UNCHANGED <<movies, payments, payment_items, tasks, dm, tx, accounts>>

(* ------------------------------ movies -------------------------------- *)
\* movies.py:613-622 and 661-670: only moderators and admins may write the catalog
may_edit_movies(user_id) == group_name(user_id) = "admin"

\* PATCH /movies/{movie_id}/ with a new price
update_movie(movie_id, price, user_id) ==
    /\ IF ~may_edit_movies(user_id)
         THEN /\ last' = Response("update_movie", 403, movie_id)
              /\ UNCHANGED movies
       ELSE IF movie_id \notin DOMAIN movies
         THEN /\ last' = Response("update_movie", 404, movie_id)
              /\ UNCHANGED movies
       ELSE /\ movies' = [movies EXCEPT ![movie_id] = price]
            /\ last' = Response("update_movie", 200, movie_id)
    /\ UNCHANGED <<carts, cart_items, orders, order_items, payments, payment_items,
                   tasks, seq, co, dm, tx, accounts>>

\* movies.py:661-687: the movie must exist and have no order item
delete_movie_check(movie_id, user_id) ==
    LET order_items_count == Cardinality({i \in order_items : i.movie_id = movie_id})
    IN  /\ dm.pc = "idle"
        /\ IF ~may_edit_movies(user_id)
             THEN /\ last' = Response("delete_movie", 403, movie_id)
                  /\ UNCHANGED dm
           ELSE IF movie_id \notin DOMAIN movies
             THEN /\ last' = Response("delete_movie", 404, movie_id)
                  /\ UNCHANGED dm
           ELSE IF order_items_count > 0
             THEN /\ last' = Response("delete_movie", 400, movie_id)
                  /\ UNCHANGED dm
           ELSE /\ dm' = [pc |-> "flush", movie |-> movie_id, user |-> user_id]
                /\ UNCHANGED last
        /\ UNCHANGED <<db, tasks, seq, co, tx, accounts>>

\* movies.py:689-690, the flush of the commit: the ORM loads the rows that
\* reference the movie (Movie.order_items, Movie.cart_items have no delete
\* cascade) to set their movie_id to NULL, which the NOT NULL column refuses:
\* IntegrityError, nothing is committed, 500.
delete_movie_flush ==
    LET children == {i \in order_items : i.movie_id = dm.movie}
                    \cup {i \in cart_items : i.movie_id = dm.movie}
    IN  /\ dm.pc = "flush"
        /\ IF children # {}
             THEN /\ dm' = IdleDm
                  /\ last' = Response("delete_movie", 500, dm.movie)
             ELSE /\ dm' = [dm EXCEPT !.pc = "delete"]
                  /\ UNCHANGED last
        /\ UNCHANGED <<db, tasks, seq, co, tx, accounts>>

\* the rows the database removes with a movie row: order_items.movie_id and
\* cart_items.movie_id are ON DELETE CASCADE (orders.py:56, carts.py:30), and
\* payment_items.order_item_id is too (payments.py:28-30)
CascadeMovie(movie_id) ==
    LET gone == {i \in order_items : i.movie_id = movie_id}
    IN  /\ order_items' = order_items \ gone
        /\ payment_items' = {p \in payment_items :
                                p.order_item_id \notin {i.id : i \in gone}}
        /\ cart_items' = {i \in cart_items : i.movie_id # movie_id}

\* movies.py:689-690: DELETE FROM movies and commit
delete_movie_commit ==
    /\ dm.pc = "delete"
    /\ movies' = [m \in DOMAIN movies \ {dm.movie} |-> movies[m]]
    /\ CascadeMovie(dm.movie)
    /\ dm' = IdleDm
    /\ last' = Response("delete_movie", 200, dm.movie)
    /\ UNCHANGED <<carts, orders, payments, tasks, seq, co, tx, accounts>>

(* ------------------------------ orders -------------------------------- *)
\* orders.py:30-53 check_user_access: 0 when access is granted, else the status
\* code of the error.  For a requester who is not the owner the User row is
\* selected without its group (orders.py:43-46), and current_user.group is a
\* lazy relationship (accounts.py:71): reading it on the AsyncSession raises
\* MissingGreenlet before the name is compared, an unhandled error, 500.
check_user_access(current_user_id, resource_owner_id) ==
    IF current_user_id = resource_owner_id THEN 0
    ELSE 500

\* the response of an order request, with its requester
OrderResponse(op, code, order_id, current_user_id) ==
    [Response(op, code, order_id) EXCEPT !.user = current_user_id]

\* the strings a client may send as ?status=
StatusInputs == OrderStatus \cup {"bogus"}

\* GET /orders/{order_id}
get_order(order_id, current_user_id) ==
    LET respond(code) == OrderResponse("get_order", code, order_id, current_user_id)
    IN  /\ IF order_id \notin DOMAIN orders
             THEN last' = respond(404)
           ELSE IF check_user_access(current_user_id, orders[order_id].user_id) # 0
             THEN last' = respond(check_user_access(current_user_id,
                                                     orders[order_id].user_id))
           ELSE IF orders[order_id].status = CANCELED
             THEN last' = respond(400)
           ELSE last' = respond(200)
        /\ UNCHANGED <<db, tasks, seq, co, dm, tx, accounts>>

\* orders.py:249-266: what update_order_status raises before it writes, 0 when
\* it goes on to write
update_order_status_check(ords, order_id, status, current_user_id) ==
    IF status \notin OrderStatus THEN 400
    ELSE IF order_id \notin DOMAIN ords THEN 404
    ELSE IF check_user_access(current_user_id, ords[order_id].user_id) # 0
      THEN check_user_access(current_user_id, ords[order_id].user_id)
    ELSE IF ords[order_id].status \in {PAID, CANCELED} THEN 400
    ELSE 0

\* PUT /orders/{order_id}?status=..., with no other request between its
\* SELECT and its commit
update_order_status(order_id, status, current_user_id) ==
    LET code == update_order_status_check(orders, order_id, status, current_user_id)
        respond(c) == [OrderResponse("update_order_status", c, order_id, current_user_id)
                          EXCEPT !.status = status]
    IN  /\ IF code # 0
             THEN last' = respond(code) /\ UNCHANGED orders
             ELSE /\ orders' = [orders EXCEPT ![order_id].status = status]
                  /\ last' = respond(200)
        /\ UNCHANGED <<movies, carts, cart_items, order_items, payments, payment_items,
                       tasks, seq, co, dm, tx, accounts>>

\* orders.py:346-358: what cancel_order raises before it writes
cancel_order_check(ords, order_id, current_user_id) ==
    IF order_id \notin DOMAIN ords THEN 404
    ELSE IF check_user_access(current_user_id, ords[order_id].user_id) # 0
      THEN check_user_access(current_user_id, ords[order_id].user_id)
    ELSE IF ords[order_id].status # PENDING THEN 400
    ELSE 0

\* PUT /orders/{order_id}/cancel, with no other request between its SELECT
\* and its commit
cancel_order(order_id, current_user_id) ==
    LET code == cancel_order_check(orders, order_id, current_user_id)
        respond(c) == OrderResponse("cancel_order", c, order_id, current_user_id)
    IN  /\ IF code # 0
             THEN last' = respond(code) /\ UNCHANGED orders
             ELSE /\ orders' = [orders EXCEPT ![order_id].status = CANCELED]
                  /\ last' = respond(200)
        /\ UNCHANGED <<movies, carts, cart_items, order_items, payments, payment_items,
                       tasks, seq, co, dm, tx, accounts>>

\* a request that passed its checks holds the row it loaded
LoadedTx(id, current_user_id, read, arg, event) ==
    [pc |-> "write", id |-> id, user |-> current_user_id, read |-> read,
     arg |-> arg, event |-> event]

\* orders.py:249-266: update_order_status up to its status check; the SELECT
\* takes no lock
update_order_status_read(order_id, status, current_user_id) ==
    LET code == update_order_status_check(orders, order_id, status, current_user_id)
    IN  /\ tx["update_order_status"].pc = "idle"
        /\ IF code # 0
             THEN /\ last' = [OrderResponse("update_order_status", code, order_id,
                                            current_user_id) EXCEPT !.status = status]
                  /\ UNCHANGED tx
             ELSE /\ tx' = [tx EXCEPT !["update_order_status"] =
                               LoadedTx(order_id, current_user_id,
                                        orders[order_id].status, status, NoEvent)]
                  /\ UNCHANGED last
        /\ UNCHANGED <<db, tasks, seq, co, dm, accounts>>

\* orders.py:347-358: cancel_order up to its status check
cancel_order_read(order_id, current_user_id) ==
    LET code == cancel_order_check(orders, order_id, current_user_id)
    IN  /\ tx["cancel_order"].pc = "idle"
        /\ IF code # 0
             THEN /\ last' = OrderResponse("cancel_order", code, order_id, current_user_id)
                  /\ UNCHANGED tx
             ELSE /\ tx' = [tx EXCEPT !["cancel_order"] =
                               LoadedTx(order_id, current_user_id,
                                        orders[order_id].status, CANCELED, NoEvent)]
                  /\ UNCHANGED last
        /\ UNCHANGED <<db, tasks, seq, co, dm, accounts>>

\* order.status = ...; commit; refresh.  The ORM sends UPDATE orders SET
\* status WHERE id only when the value differs from the one it loaded; the
\* row that is gone makes the UPDATE or the refresh raise, 500.
write_order_status(kind) ==
    LET t == tx[kind]
        respond(c) == [OrderResponse(kind, c, t.id, t.user)
                          EXCEPT !.status = IF kind = "update_order_status"
                                              THEN t.arg ELSE ""]
    IN  /\ t.pc = "write"
        /\ IF t.id \notin DOMAIN orders
             THEN last' = respond(500) /\ UNCHANGED orders
           ELSE IF t.arg = t.read
             THEN last' = respond(200) /\ UNCHANGED orders
           ELSE /\ orders' = [orders EXCEPT ![t.id].status = t.arg]
                /\ last' = respond(200)
        /\ tx' = [tx EXCEPT ![kind] = IdleTx]
        /\ UNCHANGED <<movies, carts, cart_items, order_items, payments, payment_items,
                       tasks, seq, co, dm, accounts>>

\* orders.py:268-273
update_order_status_write == write_order_status("update_order_status")

\* orders.py:360-365
cancel_order_write == write_order_status("cancel_order")

\* DELETE /orders/{order_id}.  The ORM deletes the order's items and, through
\* Order.payments (cascade "all, delete-orphan"), its payments; a payment item
\* that references one of them would get its foreign key set to NULL
\* (OrderItem.payment_items and Payment.payment_items have no delete
\* cascade), which the NOT NULL columns refuse: IntegrityError, 500.
delete_order(order_id, current_user_id) ==
    LET respond(code) == OrderResponse("delete_order", code, order_id, current_user_id)
        items == {i \in order_items : i.order_id = order_id}
        pays == {p \in DOMAIN payments : payments[p].order_id = order_id}
        children == {pi \in payment_items :
                        \/ pi.payment_id \in pays
                        \/ pi.order_item_id \in {i.id : i \in items}}
    IN  /\ IF order_id \notin DOMAIN orders
             THEN last' = respond(404) /\ UNCHANGED <<orders, order_items, payments>>
           ELSE IF check_user_access(current_user_id, orders[order_id].user_id) # 0
             THEN /\ last' = respond(check_user_access(current_user_id,
                                                         orders[order_id].user_id))
                  /\ UNCHANGED <<orders, order_items, payments>>
           ELSE IF orders[order_id].status # PENDING
             THEN last' = respond(400) /\ UNCHANGED <<orders, order_items, payments>>
           ELSE IF children # {}
             THEN last' = respond(500) /\ UNCHANGED <<orders, order_items, payments>>
           ELSE /\ orders' = [o \in DOMAIN orders \ {order_id} |-> orders[o]]
                /\ order_items' = order_items \ items
                /\ payments' = [p \in DOMAIN payments \ pays |-> payments[p]]
                /\ last' = respond(204)
        /\ UNCHANGED <<movies, carts, cart_items, payment_items, tasks, seq, co, dm, tx, accounts>>

(* ----------------------------- payments ------------------------------- *)
\* the external_payment_id values a client or the gateway may send
ExternalIds == {"pi_1", "pi_2"}

\* the PaymentItem rows of payments.py:75-83
NewPaymentItems(payment_id, items) ==
    {[payment_id |-> payment_id, order_item_id |-> i.id,
      price_at_payment |-> i.price_at_order] : i \in items}

\* create_payment that takes an order without items for one with items
order_never_without_items(items) == FALSE

\* orders_after_payment marking the orders that have a successful Payment
\* as PAID
orders_paid_with_payment(ords, pays) ==
    [o \in DOMAIN ords |->
        IF \E p \in DOMAIN pays : pays[p].order_id = o /\ pays[p].status = successful
          THEN [ords[o] EXCEPT !.status = PAID]
          ELSE ords[o]]

\* the orders table after a request of payments.py has committed the
\* payments table pays: create_payment only reads the order (db.get,
\* payments.py:52), refund_payment and update_payment_status assign
\* payment.status and nothing else (payments.py:168, 281), so no Order row
\* is written
orders_after_payment(ords, pays) == ords

\* payments.py:68-71: the order has no OrderItem rows
order_has_no_items(items) == items = {}

\* create_payment refusing an order that has a pending Payment already
create_payment_refused_while_pending(pays, order_id, items) ==
    \/ order_has_no_items(items)
    \/ \E p \in DOMAIN pays : pays[p].order_id = order_id /\ pays[p].status = pending

\* payments.py:52-71: what refuses the request once the order is found.  The
\* handler reads the order and its items only: the payments table is not
\* queried, so the Payments the order already has refuse nothing.
create_payment_refused(pays, order_id, items) == order_has_no_items(items)

\* POST /payments/: the payment row is flushed before the order's items are
\* read; raising then leaves the transaction uncommitted.  The handler makes
\* no call to the gateway (create_stripe_payment_intent, payments.py:30-42,
\* has no caller): the response names no intent, and external_payment_id is
\* the string of the request body.
create_payment(order_id, external_payment_id, current_user_id) ==
    LET respond(code, id) ==
            [Response("create_payment", code, id) EXCEPT !.user = current_user_id,
                                                         !.order = order_id,
                                                         !.ext = external_payment_id]
        payment_id == seq.payment
        items == {i \in order_items : i.order_id = order_id}
    IN  /\ seq.payment <= MaxPayments
        /\ IF order_id \notin DOMAIN orders
             THEN last' = respond(404, 0) /\ UNCHANGED <<payments, payment_items, seq, orders>>
           ELSE IF create_payment_refused(payments, order_id, items)
             THEN last' = respond(400, 0) /\ UNCHANGED <<payments, payment_items, seq, orders>>
           ELSE /\ payments' = [p \in DOMAIN payments \cup {payment_id} |->
                                  IF p = payment_id
                                    THEN [user_id |-> current_user_id,
                                          order_id |-> order_id,
                                          status |-> pending,
                                          amount |-> orders[order_id].total_amount,
                                          external_payment_id |-> external_payment_id]
                                    ELSE payments[p]]
                /\ orders' = orders_after_payment(orders, payments')
                /\ payment_items' = payment_items \cup NewPaymentItems(payment_id, items)
                /\ seq' = [seq EXCEPT !.payment = @ + 1]
                /\ last' = respond(201, payment_id)
        /\ UNCHANGED <<movies, carts, cart_items, order_items, tasks, co, dm, tx, accounts>>

\* what stripe.Refund.create does: it raises StripeError, or returns a refund
\* whose status is "succeeded" or something else
RefundOutcomes == {"error", "succeeded", "failed"}

\* owned_payment with the ownership filter left out
owned_payment_by_id(pays, payment_id, current_user_id) ==
    payment_id \in DOMAIN pays

\* payments.py:129-138: the Payment with that id that belongs to the requester
owned_payment(pays, payment_id, current_user_id) ==
    /\ payment_id \in DOMAIN pays
    /\ pays[payment_id].user_id = current_user_id

\* refundable refusing only the statuses that are final
refundable_if_not_final(status) == status \in {pending, successful}

\* refundable accepting every status
refundable_always(status) == TRUE

\* payments.py:140-143: only successful payments can be refunded
refundable(status) == status = successful

\* refund_confirmed taking every refund the gateway returns as confirmed
refund_confirmed_unless_error(refund) == refund # "error"

\* payments.py:167: refund.status == "succeeded"
refund_confirmed(refund) == refund = "succeeded"

\* what a refund request comes to: the response's status code, the payments
\* table as committed, the notifications queued, and whether
\* stripe.Refund.create was called
RefundResult(code, pays, queued, gateway) ==
    [code |-> code, payments |-> pays, tasks |-> queued, gateway |-> gateway]

\* payments.py:117-184 on a payments table; refund is what the gateway does
\* if it is called
refund_result(pays, payment_id, current_user_id, refund) ==
    IF ~owned_payment(pays, payment_id, current_user_id)
      THEN RefundResult(404, pays, <<>>, FALSE)
    ELSE IF ~refundable(pays[payment_id].status)
      THEN RefundResult(400, pays, <<>>, FALSE)
    ELSE IF refund = "error"
      THEN RefundResult(500, pays, <<>>, TRUE)
    ELSE IF refund_confirmed(refund)
      THEN RefundResult(200,
                        [pays EXCEPT ![payment_id].status = refunded],
                        <<[func |-> "send_refund_email", email |-> current_user_id,
                           amount |-> pays[payment_id].amount]>>,
                        TRUE)
    ELSE RefundResult(400, pays, <<>>, TRUE)

\* POST /payments/{payment_id}/refund/
refund_payment(payment_id, current_user_id, refund) ==
    LET out == refund_result(payments, payment_id, current_user_id, refund)
    IN  /\ Len(tasks) < MaxTasks
        /\ payments' = out.payments
        /\ orders' = orders_after_payment(orders, out.payments)
        /\ tasks' = tasks \o out.tasks
        /\ last' = [Response("refund_payment", out.code, payment_id)
                      EXCEPT !.gw = out.gateway]
        /\ UNCHANGED <<movies, carts, cart_items, order_items, payment_items,
                       seq, co, dm, tx, accounts>>

\* the Stripe-Signature header: absent, or present and verified or not by
\* stripe.Webhook.construct_event against STRIPE_WEBHOOK_SECRET
Signatures == {"absent", "invalid", "valid"}

EventTypes == {"payment_intent.succeeded", "payment_intent.canceled",
               "charge.refunded", "customer.created"}

\* event["type"] and event["data"]["object"]: a payment intent carries its own
\* id, a charge carries its id and the id of its payment intent
Events ==
    [type : {"payment_intent.succeeded", "payment_intent.canceled", "customer.created"},
     id : ExternalIds, payment_intent : {""}]
    \cup [type : {"charge.refunded"}, id : {"ch_1"}, payment_intent : ExternalIds]

\* payments.py:274-279: the rows the query matches; first() returns one of
\* them (the query has no ORDER BY)
payment_by_external_id(pays, external_id) ==
    {p \in DOMAIN pays : pays[p].external_payment_id = external_id}

\* what handling an event comes to: the response's status code, the payments
\* table as committed, and the notifications queued
Outcome(code, pays, queued) == [code |-> code, payments |-> pays, tasks |-> queued]

\* payments.py:269-286 update_payment_status: with no matching row payment is
\* None and the assignment raises AttributeError (500, nothing committed)
update_payment_status(pays, external_id, new_status, notify_func) ==
    IF payment_by_external_id(pays, external_id) = {}
      THEN {Outcome(500, pays, <<>>)}
      ELSE {Outcome(200,
                    [pays EXCEPT ![payment].status = new_status],
                    <<[func |-> notify_func, email |-> pays[payment].user_id,
                       amount |-> pays[payment].amount]>>) :
              payment \in payment_by_external_id(pays, external_id)}

\* signature_ok with the verification left out, as in the handler's
\* commented-out test block: any header that is present passes
signature_ok_header_only(sig) == sig # "absent"

\* payments.py:248-264: the header must be there and construct_event must
\* verify it against the webhook secret
signature_ok(sig) == sig = "valid"

\* payments.py:245-303: the handler on a payments table
handle_event(pays, sig, event) ==
    IF ~signature_ok(sig)
      THEN {Outcome(400, pays, <<>>)}
    ELSE IF event.type = "payment_intent.succeeded"
      THEN update_payment_status(pays, event.id, successful, "send_payment_email")
    ELSE IF event.type = "payment_intent.canceled"
      THEN update_payment_status(pays, event.id, canceled, "send_cancellation_email")
    ELSE IF event.type = "charge.refunded"
      THEN update_payment_status(pays, event.payment_intent, refunded, "send_refund_email")
    ELSE {Outcome(200, pays, <<>>)}

WebhookResponse(code, sig, event) ==
    [op |-> "stripe_webhook", code |-> code, id |-> 0,
     type |-> event.type, ext |-> event.id, pi |-> event.payment_intent, sig |-> sig,
     gw |-> FALSE, intent |-> "", user |-> 0, order |-> 0, status |-> ""]

\* POST /payments/stripe/webhook/
stripe_webhook(sig, event) ==
    /\ Len(tasks) < MaxTasks
    /\ \E out \in handle_event(payments, sig, event) :
          /\ payments' = out.payments
          /\ orders' = orders_after_payment(orders, out.payments)
          /\ tasks' = tasks \o out.tasks
          /\ last' = WebhookResponse(out.code, sig, event)
    /\ UNCHANGED <<movies, carts, cart_items, order_items, payment_items,
                   seq, co, dm, tx, accounts>>

\* payments.py:129-165: refund_payment up to the gateway's answer, for the
\* request in slot k; the SELECT takes no lock.  A request that is refused,
\* or whose refund the gateway does not confirm, answers here.
refund_read(k, payment_id, current_user_id, refund) ==
    LET out == refund_result(payments, payment_id, current_user_id, refund)
    IN  /\ tx[k].pc = "idle"
        /\ IF out.code # 200
             THEN /\ last' = [Response("refund_payment", out.code, payment_id)
                                EXCEPT !.gw = out.gateway, !.user = current_user_id]
                  /\ UNCHANGED tx
             ELSE /\ tx' = [tx EXCEPT ![k] =
                               LoadedTx(payment_id, current_user_id,
                                        payments[payment_id].status, refunded, NoEvent)]
                  /\ UNCHANGED last
        /\ UNCHANGED <<db, tasks, seq, co, dm, accounts>>

\* payments.py:167-178: payment.status = refunded; commit.  The status loaded
\* was successful, so the ORM sends UPDATE payments SET status WHERE id,
\* whatever the row holds by now.
refund_write(k) ==
    LET t == tx[k]
    IN  /\ t.pc = "write"
        /\ Len(tasks) < MaxTasks
        /\ payments' = [payments EXCEPT ![t.id].status = t.arg]
        /\ orders' = orders_after_payment(orders, payments')
        /\ tasks' = Append(tasks, [func |-> "send_refund_email", email |-> t.user,
                                   amount |-> payments[t.id].amount])
        /\ last' = [Response("refund_payment", 200, t.id)
                      EXCEPT !.gw = TRUE, !.user = t.user]
        /\ tx' = [tx EXCEPT ![k] = IdleTx]
        /\ UNCHANGED <<movies, carts, cart_items, order_items, payment_items,
                       seq, co, dm, accounts>>

\* one refund request in two steps
refund_payment_read(payment_id, current_user_id, refund) ==
    refund_read("refund_payment", payment_id, current_user_id, refund)

refund_payment_write == refund_write("refund_payment")

\* a second refund request in flight with the first
refund_payment_2_read(payment_id, current_user_id, refund) ==
    refund_read("refund_payment_2", payment_id, current_user_id, refund)

refund_payment_2_write == refund_write("refund_payment_2")

\* payments.py:288-301: the status and the notification of each event type
event_status(type) ==
    IF type = "payment_intent.succeeded" THEN successful
    ELSE IF type = "payment_intent.canceled" THEN canceled
    ELSE refunded

event_notify_func(type) ==
    IF type = "payment_intent.succeeded" THEN "send_payment_email"
    ELSE IF type = "payment_intent.canceled" THEN "send_cancellation_email"
    ELSE "send_refund_email"

\* payments.py:245-279: stripe_webhook up to the SELECT of update_payment_status
\* (no lock).  A request that is refused, an event of another type, and an
\* event that matches no Payment answer here, as handle_event says.
stripe_webhook_read(sig, event) ==
    LET external_id == IF event.type = "charge.refunded"
                         THEN event.payment_intent ELSE event.id
        matches == payment_by_external_id(payments, external_id)
        handled == /\ signature_ok(sig)
                   /\ event.type \in {"payment_intent.succeeded",
                                      "payment_intent.canceled", "charge.refunded"}
                   /\ matches # {}
    IN  /\ tx["stripe_webhook"].pc = "idle"
        /\ IF ~handled
             THEN /\ \E out \in handle_event(payments, sig, event) :
                        last' = WebhookResponse(out.code, sig, event)
                  /\ UNCHANGED tx
             ELSE /\ \E payment \in matches :
                        tx' = [tx EXCEPT !["stripe_webhook"] =
                                 LoadedTx(payment, payments[payment].user_id,
                                          payments[payment].status,
                                          event_status(event.type), event)]
                  /\ UNCHANGED last
        /\ UNCHANGED <<db, tasks, seq, co, dm, accounts>>

\* payments.py:281-286: payment.status = new_status; commit; add_task.  The
\* ORM sends no UPDATE when the new status is the one it loaded.
stripe_webhook_write ==
    LET t == tx["stripe_webhook"]
    IN  /\ t.pc = "write"
        /\ Len(tasks) < MaxTasks
        /\ IF t.arg = t.read
             THEN UNCHANGED payments
             ELSE payments' = [payments EXCEPT ![t.id].status = t.arg]
        /\ orders' = orders_after_payment(orders, payments')
        /\ tasks' = Append(tasks, [func |-> event_notify_func(t.event.type),
                                   email |-> t.user, amount |-> payments[t.id].amount])
        /\ last' = WebhookResponse(200, "valid", t.event)
        /\ tx' = [tx EXCEPT !["stripe_webhook"] = IdleTx]
        /\ UNCHANGED <<movies, carts, cart_items, order_items, payment_items,
                       seq, co, dm, accounts>>

(* ----------------------------- accounts ------------------------------- *)
\* the emails a client may register or log in with: those of the users that
\* exist from the start, and those that may still be registered
AccountIds == 1..(NumUsers + MaxRegistrations)

\* the token strings a client may send: those generated so far and later ones
TokenIds == 1..MaxTokens

\* accounts.py:79-112 register_user: the user row (is_active defaults to
\* False), its activation token (expires_at a day from now) and the
\* activation email; an email that is taken violates users.email: 409
register_user(email) ==
    /\ seq.token <= MaxTokens
    /\ Len(tasks) < MaxTasks
    /\ IF email \in DOMAIN users
         THEN /\ last' = Response("register_user", 409, email)
              /\ UNCHANGED <<users, activation_tokens, seq, tasks>>
         ELSE /\ users' = [u \in DOMAIN users \cup {email} |->
                             IF u = email THEN [is_active |-> FALSE] ELSE users[u]]
              /\ activation_tokens' = activation_tokens
                    \cup {[token |-> seq.token, user_id |-> email, expired |-> FALSE]}
              /\ seq' = [seq EXCEPT !.token = @ + 1]
              /\ tasks' = Append(tasks, [func |-> "send_activation_email",
                                         email |-> email, amount |-> 0])
              /\ last' = Response("register_user", 201, email)
    /\ UNCHANGED <<db, co, dm, tx, refresh_tokens>>

\* models/accounts.py:175-179: the clock passes expires_at of a token
activation_token_expires(token) ==
    /\ \E t \in activation_tokens : t.token = token /\ ~t.expired
    /\ activation_tokens' = {[t EXCEPT !.expired = (t.token = token) \/ @] :
                                t \in activation_tokens}
    /\ UNCHANGED <<db, tasks, seq, co, dm, tx, users, refresh_tokens, last>>

\* accounts.py:152-185 activate_account: a token that is unknown or expired is
\* refused, and deleted when it exists; a valid one activates its user and
\* is deleted
activate_account(token) ==
    LET token_record == {t \in activation_tokens : t.token = token}
        user_id == (CHOOSE t \in token_record : TRUE).user_id
        respond(code) == Response("activate_account", code, token)
    IN  /\ IF token_record = {} \/ \E t \in token_record : t.expired
             THEN /\ activation_tokens' = activation_tokens \ token_record
                  /\ last' = respond(400)
                  /\ UNCHANGED users
           ELSE IF users[user_id].is_active
             THEN /\ last' = respond(400)
                  /\ UNCHANGED <<users, activation_tokens>>
           ELSE /\ users' = [users EXCEPT ![user_id].is_active = TRUE]
                /\ activation_tokens' = activation_tokens \ token_record
                /\ last' = respond(200)
        /\ UNCHANGED <<db, tasks, seq, co, dm, tx, refresh_tokens>>

\* accounts.py:222-230: the user has an activation token row; expires_at is
\* not looked at
blocked_by_token(tokens, user_id) ==
    \E t \in tokens : t.user_id = user_id

\* accounts.py:214-244 resend_activation_token
resend_activation_token(email) ==
    LET respond(code) == Response("resend_activation_token", code, email)
    IN  /\ seq.token <= MaxTokens
        /\ Len(tasks) < MaxTasks
        /\ IF email \notin DOMAIN users
             THEN /\ last' = respond(404)
                  /\ UNCHANGED <<activation_tokens, seq, tasks>>
           ELSE IF blocked_by_token(activation_tokens, email)
             THEN /\ last' = respond(400)
                  /\ UNCHANGED <<activation_tokens, seq, tasks>>
           ELSE /\ activation_tokens' = activation_tokens
                      \cup {[token |-> seq.token, user_id |-> email, expired |-> FALSE]}
                /\ seq' = [seq EXCEPT !.token = @ + 1]
                /\ tasks' = Append(tasks, [func |-> "send_activation_email",
                                           email |-> email, amount |-> 0])
                /\ last' = respond(200)
        /\ UNCHANGED <<db, co, dm, tx, users, refresh_tokens>>

\* config/celery.py:22-27: the task scheduled as
\* delete_expired_tokens_every_hour removes the activation tokens that have
\* expired
delete_expired_activation_tokens ==
    /\ \E t \in activation_tokens : t.expired
    /\ activation_tokens' = {t \in activation_tokens : ~t.expired}
    /\ UNCHANGED <<db, tasks, seq, co, dm, tx, users, refresh_tokens, last>>

\* accounts.py:288-326 login_user: every login stores a refresh token of its
\* own
login_user(email, password_ok) ==
    LET respond(code) == Response("login_user", code, email)
    IN  /\ seq.token <= MaxTokens
        /\ IF email \notin DOMAIN users \/ ~password_ok
             THEN last' = respond(401) /\ UNCHANGED <<refresh_tokens, seq>>
           ELSE IF ~users[email].is_active
             THEN last' = respond(403) /\ UNCHANGED <<refresh_tokens, seq>>
           ELSE /\ refresh_tokens' = refresh_tokens
                      \cup {[token |-> seq.token, user_id |-> email]}
                /\ seq' = [seq EXCEPT !.token = @ + 1]
                /\ last' = respond(200)
        /\ UNCHANGED <<db, tasks, co, dm, tx, users, activation_tokens>>

\* accounts.py:359-368: first() of the user's refresh tokens (the query has no
\* ORDER BY) is the one row that is deleted: the sets of rows a logout may
\* delete
first_refresh_token(tokens, user_id) ==
    {{t} : t \in {x \in tokens : x.user_id = user_id}}

\* accounts.py:348-370 logout_user
logout_user(current_user_id) ==
    LET respond(code) == Response("logout_user", code, current_user_id)
    IN  /\ IF current_user_id \notin DOMAIN users
             THEN last' = respond(404) /\ UNCHANGED refresh_tokens
           ELSE IF \A t \in refresh_tokens : t.user_id # current_user_id
             THEN last' = respond(401) /\ UNCHANGED refresh_tokens
           ELSE /\ \E gone \in first_refresh_token(refresh_tokens, current_user_id) :
                      refresh_tokens' = refresh_tokens \ gone
                /\ last' = respond(200)
        /\ UNCHANGED <<db, tasks, seq, co, dm, tx, users, activation_tokens>>

\* accounts.py:594-627: the status code of refresh_access_token for a refresh
\* token that decodes: 401 when its row is gone, 404 when its user is
refresh_access_token_code(tokens, accts, token) ==
    IF \A t \in tokens : t.token # token THEN 401
    ELSE IF \A t \in tokens : t.token = token => t.user_id \notin DOMAIN accts THEN 404
    ELSE 200

\* accounts.py:589-627 refresh_access_token: the token that is exchanged is
\* deleted
refresh_access_token(token) ==
    LET code == refresh_access_token_code(refresh_tokens, users, token)
    IN  /\ last' = Response("refresh_access_token", code, token)
        /\ IF code = 200
             THEN refresh_tokens' = {t \in refresh_tokens : t.token # token}
             ELSE UNCHANGED refresh_tokens
        /\ UNCHANGED <<db, tasks, seq, co, dm, tx, users, activation_tokens>>

AccountsNext ==
    \/ \E email \in AccountIds : register_user(email)
    \/ \E token \in TokenIds : activation_token_expires(token)
    \/ \E token \in TokenIds : activate_account(token)
    \/ \E email \in AccountIds : resend_activation_token(email)
    \/ delete_expired_activation_tokens
    \/ \E email \in AccountIds, password_ok \in BOOLEAN : login_user(email, password_ok)
    \/ \E u \in AccountIds : logout_user(u)
    \/ \E token \in TokenIds : refresh_access_token(token)

\* registration, activation and sessions
SpecAccounts == Init /\ [][AccountsNext]_vars

(* --------------------------- specifications --------------------------- *)
CartNext ==
    \/ \E m \in MovieIds, u \in Shoppers : add_movie(m, u)
    \/ \E m \in MovieIds, u \in Shoppers : remove_movie(m, u)

\* create_order requests, at most one in flight per slot of R
CreateOrderNext(R) ==
    \/ \E r \in R, u \in Shoppers : create_order_check(r, u)
    \/ \E r \in R : create_order_cart(r)
    \/ \E r \in R : create_order_movies(r)
    \/ \E r \in R : create_order_commit(r)

MovieNext ==
    \/ \E m \in MovieIds, p \in Prices, u \in Users : update_movie(m, p, u)
    \/ \E m \in MovieIds, u \in Users : delete_movie_check(m, u)
    \/ delete_movie_flush
    \/ delete_movie_commit

OrderNext ==
    \/ \E o \in 1..MaxOrders, st \in StatusInputs, u \in Users : update_order_status(o, st, u)
    \/ \E o \in 1..MaxOrders, u \in Users : cancel_order(o, u)
    \/ \E o \in 1..MaxOrders, u \in Users : delete_order(o, u)

CreatePaymentNext ==
    \E o \in 1..MaxOrders, x \in ExternalIds, u \in Users : create_payment(o, x, u)

GatewayNext ==
    \/ \E p \in 1..MaxPayments, u \in Users, rf \in RefundOutcomes : refund_payment(p, u, rf)
    \/ \E sig \in Signatures, e \in Events : stripe_webhook(sig, e)

Next ==
    \/ CartNext \/ CreateOrderNext(Reqs) \/ MovieNext \/ OrderNext
    \/ CreatePaymentNext \/ GatewayNext
    \/ \E o \in 1..MaxOrders, u \in Users : get_order(o, u)
    \/ AccountsNext

\* every request of the model, in any interleaving
Spec == Init /\ [][Next]_vars

\* concurrent create_order requests and the order status operations
RaceNext == CartNext \/ CreateOrderNext(Reqs) \/ OrderNext

SpecRace == Init /\ [][RaceNext]_vars

\* orders against a catalog that changes: the shoppers' own requests (one
\* create_order at a time) and the administrator's catalog requests
CatalogNext ==
    \/ CartNext
    \/ CreateOrderNext({1})
    \/ \E m \in MovieIds, p \in Prices : update_movie(m, p, AdminId)
    \/ \E m \in MovieIds : delete_movie_check(m, AdminId)
    \/ delete_movie_flush
    \/ delete_movie_commit
    \/ \E o \in 1..MaxOrders, st \in OrderStatus, u \in Shoppers : update_order_status(o, st, u)
    \/ \E o \in 1..MaxOrders, u \in Shoppers : cancel_order(o, u)
    \/ \E o \in 1..MaxOrders, u \in Shoppers : delete_order(o, u)

SpecCatalog == Init /\ [][CatalogNext]_vars

\* payments and the gateway, create_order requests one at a time
PaymentsNext ==
    \/ \E m \in MovieIds, u \in Shoppers : add_movie(m, u)
    \/ CreateOrderNext({1}) \/ CreatePaymentNext \/ GatewayNext

SpecPayments == Init /\ [][PaymentsNext]_vars

(* ------------------------------ claims -------------------------------- *)
\* the OrderItems that currently belong to an order
ItemsOf(order_id) == {i \in order_items : i.order_id = order_id}

\* C1: in every reachable state every existing order's total_amount equals
\* the sum of price_at_order over the order items that belong to it.
C1_TotalIsSumOfItems ==
    \A o \in DOMAIN orders :
        orders[o].total_amount
          = SumOver(ItemsOf(o), [i \in ItemsOf(o) |-> i.price_at_order])

\* C2: in every reachable state every user has at most one PENDING order.
C2_AtMostOnePending ==
    \A u \in Users : Cardinality(existing_orders(u)) <= 1

\* C3: of the create_order requests of a user that run concurrently against
\* the same cart, exactly one succeeds: a request that succeeds is never one
\* whose user already got an order out of that cart (the cart it read is gone
\* by then, and the user has a PENDING order), such a request fails instead.
C3_OneOrderPerCart ==
    [][\A r \in Reqs :
          (create_order_commit(r) /\ last'.code = 201)
            => /\ co[r].cart \in {c.id : c \in carts}
               /\ existing_orders(co[r].user) = {}]_vars

\* the status changes a Payment may make
AllowedTransitions ==
    {<<pending, successful>>, <<pending, canceled>>, <<successful, refunded>>}

\* C4: every change of a Payment's status is pending -> successful,
\* pending -> canceled or successful -> refunded; canceled and refunded
\* payments never change status again.
C4_StatusMovesForward ==
    [][\A p \in DOMAIN payments \cap DOMAIN payments' :
          payments'[p].status # payments[p].status
            => <<payments[p].status, payments'[p].status>> \in AllowedTransitions]_vars

\* C5: from every reachable state, handling a validly signed event a second
\* time right after the first leaves the payments as the first handling left
\* them, and the second handling is acknowledged.
C5_HandlingTwiceIsHandlingOnce ==
    \A e \in Events :
      \A once \in handle_event(payments, "valid", e) :
        \A twice \in handle_event(once.payments, "valid", e) :
          /\ twice.payments = once.payments
          /\ twice.code = 200

\* a step in which stripe_webhook handles a delivery: the response recorded
\* is the webhook's and no other request moves (the requests in flight are
\* the only ones that can take a step without responding)
WebhookStep(type) ==
    /\ last'.op = "stripe_webhook"
    /\ last'.type = type
    /\ co' = co /\ dm' = dm

\* C6: a payment_intent.succeeded delivery that finds the Payment already
\* successful queues no notification.
C6_ConfirmationQueuedOnce ==
    [][( /\ WebhookStep("payment_intent.succeeded")
         /\ last'.sig = "valid"
         /\ payment_by_external_id(payments, last'.ext) # {}
         /\ \A p \in payment_by_external_id(payments, last'.ext) :
               payments[p].status = successful )
         => tasks' = tasks]_vars

\* C7: a delivery without a signature header, or with a signature that does
\* not verify, is rejected with an error; no payment, no order and no other
\* row changes and no notification is queued, whatever the event.
C7_UnsignedChangesNothing ==
    [][\A type \in EventTypes :
          (WebhookStep(type) /\ last'.sig # "valid")
            => /\ last'.code = 400
               /\ UNCHANGED <<db, tasks>>]_vars

\* C7 witness: a delivery with a bad signature has been refused although its
\* event names a pending Payment
C7_Witness ==
    /\ last.op = "stripe_webhook"
    /\ last.sig \in {"absent", "invalid"}
    /\ last.code = 400
    /\ last.type = "payment_intent.succeeded"
    /\ \E p \in payment_by_external_id(payments, last.ext) : payments[p].status = pending

\* C8: a validly signed payment_intent.succeeded event whose id is the
\* external_payment_id of a pending Payment makes that Payment successful,
\* queues one confirmation for its user and amount, and changes no other
\* Payment.
C8_SucceededSettlesPending ==
    [][\A p \in DOMAIN payments :
          ( /\ WebhookStep("payment_intent.succeeded")
            /\ last'.sig = "valid"
            /\ payments[p].external_payment_id = last'.ext
            /\ payments[p].status = pending )
            => /\ payments' = [payments EXCEPT ![p].status = successful]
               /\ tasks' = Append(tasks, [func |-> "send_payment_email",
                                          email |-> payments[p].user_id,
                                          amount |-> payments[p].amount])
               /\ last'.code = 200]_vars

\* C9: a validly signed payment_intent.canceled event cancels the matching
\* Payment and queues a cancellation only when that Payment is pending; a
\* matching Payment that is successful, canceled or refunded keeps its status
\* and the event is acknowledged without a notification.
C9_CanceledOnlyFromPending ==
    [][\A p \in DOMAIN payments :
          ( /\ WebhookStep("payment_intent.canceled")
            /\ last'.sig = "valid"
            /\ payment_by_external_id(payments, last'.ext) = {p} )
            => IF payments[p].status = pending
                 THEN /\ payments'[p].status = canceled
                      /\ Len(tasks') = Len(tasks) + 1
                 ELSE /\ payments' = payments
                      /\ tasks' = tasks
                      /\ last'.code = 200]_vars

\* C10: a validly signed charge.refunded event, matched by its payment_intent
\* id, refunds the Payment and queues a refund notification only when that
\* Payment is successful; a matching Payment that is pending or canceled
\* keeps its status and the event is acknowledged.
C10_RefundedOnlyFromSuccessful ==
    [][\A p \in DOMAIN payments :
          ( /\ WebhookStep("charge.refunded")
            /\ last'.sig = "valid"
            /\ payment_by_external_id(payments, last'.pi) = {p} )
            => IF payments[p].status = successful
                 THEN /\ payments'[p].status = refunded
                      /\ Len(tasks') = Len(tasks) + 1
                 ELSE IF payments[p].status \in {pending, canceled}
                 THEN /\ payments' = payments
                      /\ last'.code = 200
                 ELSE TRUE]_vars

\* C11: a validly signed payment_intent.succeeded, payment_intent.canceled or
\* charge.refunded event whose gateway id matches no Payment is acknowledged
\* with the success response, changes no row and queues no notification.
C11_UnmatchedEventAcknowledged ==
    [][\A type \in {"payment_intent.succeeded", "payment_intent.canceled",
                     "charge.refunded"} :
          ( /\ WebhookStep(type)
            /\ last'.sig = "valid"
            /\ payment_by_external_id(payments,
                    IF type = "charge.refunded" THEN last'.pi ELSE last'.ext) = {} )
            => /\ last'.code = 200
               /\ UNCHANGED <<db, tasks>>]_vars

\* C12: a refund requested by the owner of a Payment that is pending, canceled
\* or refunded fails with 400 without calling the gateway, leaves every
\* Payment as it was and queues no notification.
C12_RefundNeedsSuccessful ==
    \A p \in DOMAIN payments, rf \in RefundOutcomes :
        payments[p].status \in {pending, canceled, refunded}
          => LET out == refund_result(payments, p, payments[p].user_id, rf)
             IN  /\ out.code = 400
                 /\ ~out.gateway
                 /\ out.payments = payments
                 /\ out.tasks = <<>>

\* C12 witness: a refund of a Payment that is not successful has been refused
\* before the gateway was called
C12_Witness ==
    /\ last.op = "refund_payment"
    /\ last.code = 400
    /\ ~last.gw
    /\ last.id \in DOMAIN payments
    /\ payments[last.id].status \in {pending, canceled, refunded}

\* C13: when the owner asks to refund a successful Payment and the gateway
\* call raises or returns a status other than succeeded, the request fails
\* with an error, the Payment stays successful and nothing is queued.
C13_GatewayFailureChangesNothing ==
    \A p \in DOMAIN payments, rf \in RefundOutcomes \ {"succeeded"} :
        payments[p].status = successful
          => LET out == refund_result(payments, p, payments[p].user_id, rf)
             IN  /\ out.code \in {400, 500}
                 /\ out.gateway
                 /\ out.payments = payments
                 /\ out.tasks = <<>>

\* C13 witness: the gateway was called for a refund, the request failed and
\* the Payment is still successful
C13_Witness ==
    /\ last.op = "refund_payment"
    /\ last.gw
    /\ last.code \in {400, 500}
    /\ last.id \in DOMAIN payments
    /\ payments[last.id].status = successful

\* C14: when the owner asks to refund a successful Payment and the gateway
\* confirms, the Payment becomes refunded, one refund notification is queued
\* for the owner and the amount, and a refund asked again for that Payment
\* fails with 400 without another gateway call.
C14_ConfirmedRefund ==
    \A p \in DOMAIN payments :
        payments[p].status = successful
          => LET out == refund_result(payments, p, payments[p].user_id, "succeeded")
             IN  /\ out.code = 200
                 /\ out.payments = [payments EXCEPT ![p].status = refunded]
                 /\ out.tasks = <<[func |-> "send_refund_email",
                                   email |-> payments[p].user_id,
                                   amount |-> payments[p].amount]>>
                 /\ \A rf \in RefundOutcomes :
                      LET again == refund_result(out.payments, p, payments[p].user_id, rf)
                      IN  /\ again.code = 400
                          /\ ~again.gateway
                          /\ again.payments = out.payments
                          /\ again.tasks = <<>>

\* C14 witness: a refund has been confirmed, the Payment is refunded and the
\* last notification queued is the refund notification for its amount
C14_Witness ==
    /\ last.op = "refund_payment"
    /\ last.code = 200
    /\ payments[last.id].status = refunded
    /\ Len(tasks) > 0
    /\ tasks[Len(tasks)] = [func |-> "send_refund_email",
                            email |-> payments[last.id].user_id,
                            amount |-> payments[last.id].amount]

\* C15: a refund of a payment id that does not exist, or whose Payment belongs
\* to another user than the requester (an administrator included), fails with
\* 404 without a gateway call and changes no Payment.
C15_RefundOnlyByOwner ==
    \A p \in 1..MaxPayments, u \in Users, rf \in RefundOutcomes :
        (p \notin DOMAIN payments \/ payments[p].user_id # u)
          => LET out == refund_result(payments, p, u, rf)
             IN  /\ out.code = 404
                 /\ ~out.gateway
                 /\ out.payments = payments
                 /\ out.tasks = <<>>

\* C15 witness: the administrator (the only other user) asked to refund a
\* successful Payment of an ordinary user and got 404
C15_Witness ==
    /\ last.op = "refund_payment"
    /\ last.code = 404
    /\ ~last.gw
    /\ last.id \in DOMAIN payments
    /\ payments[last.id].user_id # AdminId
    /\ payments[last.id].status = successful

\* request r takes the step that commits its order
CreateOrderCommits(r) ==
    /\ co[r].pc = "write"
    /\ co'[r].pc = "idle"
    /\ last'.op = "create_order"
    /\ last'.code = 201

\* C16: a create_order that succeeds for a user who has no PENDING order
\* creates one new Order, PENDING and owned by that user, with one OrderItem
\* per cart item whose movie exists, priced as the movie was read in the same
\* request; afterwards the user's Cart and its CartItems are gone.
C16_OrderFromCart ==
    [][\A r \in Reqs :
          (CreateOrderCommits(r) /\ existing_orders(co[r].user) = {})
            => LET id == last'.id
                   items == {i \in order_items' : i.order_id = id}
               IN  /\ DOMAIN orders' = DOMAIN orders \cup {id}
                   /\ id \notin DOMAIN orders
                   /\ \A o \in DOMAIN orders : orders'[o] = orders[o]
                   /\ orders'[id].status = PENDING
                   /\ orders'[id].user_id = co[r].user
                   /\ order_items' = order_items \cup items
                   /\ order_items \cap items = {}
                   /\ Cardinality(items) = Cardinality(co[r].priced)
                   /\ {[id |-> i.movie_id, price |-> i.price_at_order] : i \in items}
                        = co[r].priced
                   /\ {m.id : m \in co[r].priced} \subseteq co[r].items
                   /\ {c \in carts' : c.user_id = co[r].user} = {}
                   /\ {i \in cart_items' : i.cart_id = co[r].cart} = {}]_vars

\* C17: a create_order that finds no Cart for its user, or a Cart without
\* CartItems, fails with 400; no Order and no OrderItem is created and the
\* Cart and its items stay as they were.
C17_EmptyCartRefused ==
    [][\A r \in Reqs :
          ( /\ co[r].pc = "cart"
            /\ co'[r] # co[r]
            /\ \/ fetch_existing_cart(co[r].user) = {}
               \/ \A c \in fetch_existing_cart(co[r].user) :
                     {i \in cart_items : i.cart_id = c.id} = {} )
            => /\ co'[r] = IdleCo
               /\ last'.op = "create_order"
               /\ last'.code = 400
               /\ UNCHANGED db]_vars

\* C17 witness: no order was ever created and no movie deleted, and a
\* create_order has been refused for a user whose Cart exists and is empty
C17_Witness ==
    /\ last.op = "create_order"
    /\ last.code = 400
    /\ seq.order = 1
    /\ DOMAIN movies = MovieIds
    /\ \A r \in Reqs : co[r].pc = "idle"
    /\ \E u \in Shoppers :
          /\ fetch_existing_cart(u) # {}
          /\ \A c \in fetch_existing_cart(u) : {i \in cart_items : i.cart_id = c.id} = {}

paymentstatus_enum == {successful, canceled, refunded}

\* orders, carts and payments of every user, the administrator included, with
\* one create_order at a time
AccessNext ==
    \/ \E m \in MovieIds, u \in Users : add_movie(m, u)
    \/ \E u \in Users : create_order_check(1, u)
    \/ create_order_cart(1)
    \/ create_order_movies(1)
    \/ create_order_commit(1)
    \/ CreatePaymentNext

SpecAccess == Init /\ [][AccessNext]_vars

\* a create_payment request answers 201 with a new Payment
CreatePaymentSucceeds ==
    /\ last'.op = "create_payment"
    /\ last'.code = 201
    /\ last'.id \notin DOMAIN payments

\* C19: a create_payment that succeeds persists one new Payment, pending and
\* of the order's total_amount, and one PaymentItem per OrderItem of the order
\* with price_at_payment = price_at_order, so that the amount is the sum of
\* its PaymentItems; and pending is a value of the payments.status column.
C19_PaymentSnapshotsOrder ==
    [][CreatePaymentSucceeds
         => LET id == last'.id
                p == payments'[id]
                items == {i \in order_items : i.order_id = p.order_id}
                pitems == {x \in payment_items' : x.payment_id = id}
            IN  /\ DOMAIN payments' = DOMAIN payments \cup {id}
                /\ \A q \in DOMAIN payments : payments'[q] = payments[q]
                /\ p.status = pending
                /\ p.amount = orders[p.order_id].total_amount
                /\ payment_items' = payment_items \cup pitems
                /\ payment_items \cap pitems = {}
                /\ Cardinality(pitems) = Cardinality(items)
                /\ {<<x.order_item_id, x.price_at_payment>> : x \in pitems}
                     = {<<i.id, i.price_at_order>> : i \in items}
                /\ p.amount = SumOver(pitems, [x \in pitems |-> x.price_at_payment])
                /\ p.status \in paymentstatus_enum]_vars

\* the requesters the access rule lets through: the owner and administrators
owner_or_admin(current_user_id, resource_owner_id) ==
    \/ current_user_id = resource_owner_id
    \/ group_name(current_user_id) = "admin"

\* C20: create_payment answers 404 when the order does not exist, and a
\* Payment is only ever created for a requester who is the order's owner or
\* an administrator; a request that is refused persists nothing.
C20_PaymentOnlyForOwnOrder ==
    [][ /\ ( /\ last'.op = "create_payment"
             /\ last' # last
             /\ DOMAIN orders = {} )
           => /\ last'.code = 404
              /\ UNCHANGED <<payments, payment_items>>
        /\ CreatePaymentSucceeds
           => LET p == payments'[last'.id]
              IN  owner_or_admin(p.user_id, orders[p.order_id].user_id)
        /\ ( /\ last'.op = "create_payment"
             /\ last'.code # 201 )
           => UNCHANGED <<payments, payment_items>> ]_vars

\* a step of create_payment: no other request answers with this operation
CreatePaymentStep ==
    /\ last'.op = "create_payment"
    /\ co' = co /\ dm' = dm /\ tx' = tx

\* C21: every create_payment that succeeds has opened a payment intent with
\* the gateway, and the external_payment_id of the Payment it persists is the
\* id of that intent; a create_payment that fails persists no Payment and no
\* PaymentItem.
C21_PaymentOpensIntent ==
    [][ /\ CreatePaymentSucceeds
           => /\ last'.intent # ""
              /\ payments'[last'.id].external_payment_id = last'.intent
        /\ ( CreatePaymentStep /\ last'.code # 201 )
           => UNCHANGED <<payments, payment_items>> ]_vars

\* a shopper's order may lose its items while a payment is being made: one
\* create_order at a time, the administrator's delete_movie, and the owner's
\* create_payment and delete_order
OrphanNext ==
    \/ \E m \in MovieIds, u \in Shoppers : add_movie(m, u)
    \/ CreateOrderNext({1})
    \/ \E m \in MovieIds : delete_movie_check(m, AdminId)
    \/ delete_movie_flush
    \/ delete_movie_commit
    \/ \E o \in 1..MaxOrders, u \in Shoppers : create_payment(o, "pi_1", u)
    \/ \E o \in 1..MaxOrders, u \in Shoppers : delete_order(o, u)

SpecOrphan == Init /\ [][OrphanNext]_vars

\* C22: create_payment on an existing order that has no OrderItems answers
\* 400 and no Payment row is persisted.
C22_NoItemsNoPayment ==
    [][ ( /\ CreatePaymentStep
          /\ last'.order \in DOMAIN orders
          /\ ItemsOf(last'.order) = {} )
        => /\ last'.code = 400
           /\ UNCHANGED <<payments, payment_items>> ]_vars

C22_Witness ==
    /\ last.op = "create_payment"
    /\ last.code = 400
    /\ last.order \in DOMAIN orders
    /\ ItemsOf(last.order) = {}
    /\ \A p \in DOMAIN payments : payments[p].order_id # last.order

\* C23: no two distinct Payments share an external_payment_id.
C23_ExternalIdUnique ==
    \A p, q \in DOMAIN payments :
        ( /\ p # q
          /\ payments[p].external_payment_id # "" )
        => payments[p].external_payment_id # payments[q].external_payment_id

\* orders of both users, the administrator's included, and every user's
\* requests on them
OrderAccessNext ==
    \/ \E m \in MovieIds, u \in Users : add_movie(m, u)
    \/ \E u \in Users : create_order_check(1, u)
    \/ create_order_cart(1)
    \/ create_order_movies(1)
    \/ create_order_commit(1)
    \/ OrderNext
    \/ \E o \in 1..MaxOrders, u \in Users : get_order(o, u)

SpecOrderAccess == Init /\ [][OrderAccessNext]_vars

\* a step in which a request answers with this operation: no request moves on
\* to a later step of its own
Returns(op) ==
    /\ last'.op = op
    /\ co' = co /\ dm' = dm
    /\ \A k \in TxKinds : tx'[k] = tx[k] \/ tx'[k].pc = "idle"

\* C29: get_order, update_order_status, cancel_order and delete_order on an
\* existing order answer 403 and change nothing for a requester who is neither
\* the owner nor an administrator; the owner and every administrator get
\* past the access check.
C29_OrderAccess ==
    [][ \A op \in {"get_order", "update_order_status", "cancel_order", "delete_order"} :
          ( /\ Returns(op)
            /\ last'.id \in DOMAIN orders
            /\ op = "update_order_status" => last'.status \in OrderStatus )
          => IF owner_or_admin(last'.user, orders[last'.id].user_id)
               THEN last'.code \notin {403, 500}
               ELSE /\ last'.code = 403
                    /\ UNCHANGED db ]_vars

\* C26: cancel_order by the owner or an administrator answers 200 on a PENDING
\* order, sets its status to CANCELED and changes nothing else; on a PAID or
\* CANCELED order it answers 400 and changes nothing.
C26_CancelOrder ==
    [][ ( /\ Returns("cancel_order")
          /\ last'.id \in DOMAIN orders
          /\ owner_or_admin(last'.user, orders[last'.id].user_id) )
        => /\ IF orders[last'.id].status = PENDING
                THEN /\ last'.code = 200
                     /\ orders' = [orders EXCEPT ![last'.id].status = CANCELED]
                ELSE /\ last'.code = 400
                     /\ orders' = orders
           /\ UNCHANGED <<movies, carts, cart_items, order_items, payments,
                          payment_items>> ]_vars

\* C28: update_order_status by a requester who may access the order answers
\* 200 and sets the status to the requested one when the order is PENDING,
\* answers 400 and changes nothing when the order is PAID or CANCELED, and
\* answers 400 and changes nothing when the status string is not one of
\* pending, paid, canceled.
C28_UpdateOrderStatus ==
    [][ Returns("update_order_status")
        => /\ last'.status \notin OrderStatus
              => last'.code = 400 /\ UNCHANGED db
           /\ ( /\ last'.status \in OrderStatus
                /\ last'.id \in DOMAIN orders
                /\ owner_or_admin(last'.user, orders[last'.id].user_id) )
              => /\ IF orders[last'.id].status = PENDING
                      THEN /\ last'.code = 200
                           /\ orders' = [orders EXCEPT ![last'.id].status = last'.status]
                      ELSE /\ last'.code = 400
                           /\ orders' = orders
                 /\ UNCHANGED <<movies, carts, cart_items, order_items, payments,
                                payment_items>> ]_vars

\* C27: an Order row disappears only in a delete_order request on that order
\* while it is PENDING; delete_order by the owner answers 204 on a PENDING
\* order and removes it with all its OrderItems, and answers 400 and removes
\* nothing on a PAID or CANCELED one.
C27_OrderRemoval ==
    [][ /\ \A o \in DOMAIN orders \ DOMAIN orders' :
              /\ Returns("delete_order")
              /\ last'.id = o
              /\ orders[o].status = PENDING
        /\ ( /\ Returns("delete_order")
             /\ last'.id \in DOMAIN orders
             /\ last'.user = orders[last'.id].user_id )
           => IF orders[last'.id].status = PENDING
                THEN /\ last'.code = 204
                     /\ last'.id \notin DOMAIN orders'
                     /\ \A i \in order_items' : i.order_id # last'.id
                ELSE /\ last'.code = 400
                     /\ UNCHANGED db ]_vars

\* C30: no step removes a Payment row or one of its PaymentItem rows.
C30_PaymentKept ==
    [][ \A p \in DOMAIN payments :
          /\ p \in DOMAIN payments'
          /\ payments'[p] = payments[p] \/ payments'[p].status # payments[p].status
          /\ \A x \in payment_items : x.payment_id = p => x \in payment_items' ]_vars

\* the owner's order status requests, each in two steps: its SELECT and
\* checks, then its UPDATE and commit
OrderRaceNext ==
    \/ \E m \in MovieIds, u \in Shoppers : add_movie(m, u)
    \/ CreateOrderNext({1})
    \/ \E o \in 1..MaxOrders, st \in OrderStatus, u \in Shoppers :
          update_order_status_read(o, st, u)
    \/ update_order_status_write
    \/ \E o \in 1..MaxOrders, u \in Shoppers : cancel_order_read(o, u)
    \/ cancel_order_write
    \/ \E o \in 1..MaxOrders, u \in Shoppers : delete_order(o, u)

SpecOrderRace == Init /\ [][OrderRaceNext]_vars

\* C25: no step changes the status of an order whose committed status is
\* PAID or CANCELED.
C25_FinalOrderStatus ==
    [][ \A o \in DOMAIN orders \cap DOMAIN orders' :
          orders[o].status \in {PAID, CANCELED}
          => orders'[o].status = orders[o].status ]_vars

\* a refund and a webhook delivery in flight together, each in two steps: its
\* SELECT and checks, then its UPDATE and commit
PaymentRaceNext ==
    \/ \E m \in MovieIds, u \in Shoppers : add_movie(m, u)
    \/ CreateOrderNext({1})
    \/ \E o \in 1..MaxOrders, u \in Shoppers : create_payment(o, "pi_1", u)
    \/ \E p \in 1..MaxPayments, u \in Shoppers, rf \in RefundOutcomes :
          refund_payment_read(p, u, rf)
    \/ refund_payment_write
    \/ \E e \in Events : stripe_webhook_read("valid", e)
    \/ stripe_webhook_write

SpecPaymentRace == Init /\ [][PaymentRaceNext]_vars

\* C24: when refund_payment commits its status, the committed status of the
\* Payment is still the one the request read and tested, or the commit
\* changes nothing: a refund never replaces a status that a webhook delivery
\* committed after the refund read the Payment, so the final status is that
\* of one of the two serial orders.
C24_NoLostUpdate ==
    [][ ( /\ tx["refund_payment"].pc = "write"
          /\ tx'["refund_payment"].pc = "idle" )
        => LET payment_id == tx["refund_payment"].id
           IN  \/ payments[payment_id].status = tx["refund_payment"].read
               \/ payments'[payment_id].status = payments[payment_id].status ]_vars

\* C31: while an Order exists, no step adds, removes or re-prices one of its
\* OrderItems.
C31_OrderItemsFrozen ==
    [][ \A o \in DOMAIN orders \cap DOMAIN orders' :
          {i \in order_items' : i.order_id = o} = ItemsOf(o) ]_vars

\* C34: when create_order commits, every CartItem of the cart it destroys is
\* an OrderItem of the order it creates, or is still a CartItem afterwards.
C34_NoCartItemLost ==
    [][ \A r \in Reqs :
          CreateOrderCommits(r)
          => \A c \in cart_items :
                c.cart_id = co[r].cart
                => \/ c \in cart_items'
                   \/ \E i \in order_items' :
                         /\ i.order_id = last'.id
                         /\ i.movie_id = c.movie_id ]_vars

\* C37: an Order is PAID only if a Payment of that order is successful, or
\* has been and has moved on since.
C37_PaidHasPayment ==
    \A o \in DOMAIN orders :
        orders[o].status = PAID
        => \E p \in DOMAIN payments :
              /\ payments[p].order_id = o
              /\ payments[p].status # pending

\* C38: every Payment belongs to the user who owns the Order it references.
C38_PaymentOfOwner ==
    \A p \in DOMAIN payments :
        payments[p].order_id \in DOMAIN orders
        => payments[p].user_id = orders[payments[p].order_id].user_id

\* C35: after refund_payment has moved a Payment to refunded and queued its
\* notification, a charge.refunded delivery for the payment intent of that
\* Payment changes nothing and queues no notification.
C35_RefundNotifiedOnce ==
    [][ ( /\ last.op = "refund_payment"
          /\ last.code = 200
          /\ WebhookStep("charge.refunded")
          /\ last'.sig = "valid"
          /\ payment_by_external_id(payments, last'.pi) = {last.id}
          /\ payments[last.id].status = refunded )
        => /\ tasks' = tasks
           /\ payments' = payments ]_vars

\* C32: create_payment for an order that has items and already has a pending
\* Payment answers 201 and persists a further pending Payment for that order.
C32_SecondPendingPayment ==
    [][ ( /\ CreatePaymentStep
          /\ last'.order \in DOMAIN orders
          /\ ItemsOf(last'.order) # {}
          /\ \E p \in DOMAIN payments :
                /\ payments[p].order_id = last'.order
                /\ payments[p].status = pending )
        => /\ last'.code = 201
           /\ last'.id \in DOMAIN payments' \ DOMAIN payments
           /\ payments'[last'.id].order_id = last'.order
           /\ payments'[last'.id].status = pending ]_vars

C32_Witness ==
    \E p, q \in DOMAIN payments :
        /\ p # q
        /\ payments[p].order_id = payments[q].order_id
        /\ payments[p].status = pending
        /\ payments[q].status = pending

\* the owner's payment requests and the gateway's deliveries next to the
\* owner's order status requests
PaidOrdersNext ==
    \/ \E u \in Shoppers : add_movie(1, u)
    \/ CreateOrderNext({1})
    \/ \E o \in 1..MaxOrders, u \in Shoppers : create_payment(o, "pi_1", u)
    \/ \E p \in 1..MaxPayments, u \in Shoppers : refund_payment(p, u, "succeeded")
    \/ \E e \in {x \in Events : "pi_1" \in {x.id, x.payment_intent}} :
          stripe_webhook("valid", e)
    \/ \E o \in 1..MaxOrders, st \in OrderStatus, u \in Shoppers :
          update_order_status(o, st, u)
    \/ \E o \in 1..MaxOrders, u \in Shoppers : cancel_order(o, u)

SpecPaidOrders == Init /\ [][PaidOrdersNext]_vars

\* C36: create_payment, stripe_webhook and refund_payment leave every Order
\* and every OrderItem as they are, and a step that changes the status of an
\* Order is one of update_order_status or cancel_order.
C36_PaymentsLeaveOrders ==
    [][ /\ \A op \in {"create_payment", "stripe_webhook", "refund_payment"} :
              Returns(op) => UNCHANGED <<orders, order_items>>
        /\ ( \E o \in DOMAIN orders \cap DOMAIN orders' :
                orders'[o].status # orders[o].status )
           => last'.op \in {"update_order_status", "cancel_order"} ]_vars

C36_Witness ==
    /\ last.op = "stripe_webhook"
    /\ last.type = "payment_intent.succeeded"
    /\ last.code = 200
    /\ \E p \in DOMAIN payments :
          /\ payments[p].status = successful
          /\ payments[p].order_id \in DOMAIN orders
          /\ orders[payments[p].order_id].status = PENDING

\* two refund requests in flight together, for a Payment that a
\* payment_intent.succeeded delivery has made successful
RefundRaceNext ==
    \/ \E u \in Shoppers : add_movie(1, u)
    \/ CreateOrderNext({1})
    \/ \E o \in 1..MaxOrders, u \in Shoppers : create_payment(o, "pi_1", u)
    \/ stripe_webhook("valid", [type |-> "payment_intent.succeeded", id |-> "pi_1",
                                payment_intent |-> ""])
    \/ \E p \in 1..MaxPayments, u \in Shoppers, rf \in RefundOutcomes :
          refund_payment_read(p, u, rf)
    \/ refund_payment_write
    \/ \E p \in 1..MaxPayments, u \in Shoppers, rf \in RefundOutcomes :
          refund_payment_2_read(p, u, rf)
    \/ refund_payment_2_write

SpecRefundRace == Init /\ [][RefundRaceNext]_vars

\* C33: two refund requests for the same Payment are never both past the
\* gateway's confirmation of their refund: of two concurrent requests at most
\* one has issued a gateway refund and goes on to answer 200 and queue
\* send_refund_email.
C33_OneRefundSucceeds ==
    ~ ( /\ tx["refund_payment"].pc = "write"
        /\ tx["refund_payment_2"].pc = "write"
        /\ tx["refund_payment"].id = tx["refund_payment_2"].id )

\* C39: after a logout that answers 200, no refresh token of that user can
\* be exchanged by refresh_access_token.
C39_LogoutEndsEverySession ==
    [][ ( /\ Returns("logout_user")
          /\ last'.code = 200 )
        => \A t \in refresh_tokens :
              t.user_id = last'.id
              => refresh_access_token_code(refresh_tokens', users', t.token) # 200 ]_vars

\* C40: resend_activation_token for a registered user who is not activated
\* and whose activation token has expired answers 200 and stores a new token
\* that has not expired in place of the expired one.
C40_ResendAfterExpiry ==
    [][ ( /\ Returns("resend_activation_token")
          /\ last'.id \in DOMAIN users
          /\ ~users[last'.id].is_active
          /\ \E t \in activation_tokens : t.user_id = last'.id /\ t.expired )
        => /\ last'.code = 200
           /\ \E t \in activation_tokens' \ activation_tokens :
                 t.user_id = last'.id /\ ~t.expired
           /\ \A t \in activation_tokens' : t.user_id = last'.id => ~t.expired ]_vars

====
